---- MODULE Spec2Model ----
(***************************************************************************)
(* Model of static/js/index.js: the document-ready initializer that        *)
(* attaches bulmaCarousel to every '.carousel' element, registers a        *)
(* 'before:show' and a 'shown' callback on every returned instance, and    *)
(* attaches bulmaSlider.                                                   *)
(*                                                                         *)
(* The page is a set of video elements numbered in document order.  Each   *)
(* video sits at a location <<c, s>>: c = 0 is outside every carousel,     *)
(* c >= 1 is inside slide ('.slider-item') s >= 1 of carousel element c    *)
(* (bulmaCarousel turns every child of the carousel element into a slide). *)
(* Carousel elements are siblings (not nested).  The playback state of a   *)
(* video is its HTMLMediaElement 'paused' flag; play() is taken to be      *)
(* permitted by the browser, and bulmaSlider to be loaded.                 *)
(***************************************************************************)
EXTENDS Integers, Sequences, FiniteSets, TLC

\* ---- bounds of the model ----
MaxCarousels == 2
MaxSlides == 2
MaxVideos == 2

Videos == 1..MaxVideos
CarouselIds == 1..MaxCarousels
Events == {"before:show", "shown"}
NoCallback == <<0, "none">>

VARIABLES
    nCar,           \* number of elements matching '.carousel' on the page
    loc,            \* loc[v] = <<c, s>>: where video v sits in the DOM
    carouselLib,    \* "ok" | "missing" | "throws": state of bulmaCarousel
    pc,             \* position of the document-ready callback
    runs,           \* number of times the document-ready callback has started
    carousels,      \* the collection returned by bulmaCarousel.attach
    idx,            \* position of carousels.forEach
    handlers,       \* handlers[c][ev]: handlers registered on instance c
    sliderAttached, \* bulmaSlider.attach() has returned
    errors,         \* source lines at which an exception was thrown
    active,         \* active[c]: slide of c flagged 'is-active', 0 if none
    phase,          \* phase[c]: last event the library emitted on c
    playing,        \* playing[v]: video v is not paused
    changedBy       \* changedBy[v]: callback that last changed playing[v]

vars == <<nCar, loc, carouselLib, pc, runs, carousels, idx,
          handlers, sliderAttached, errors, active, phase, playing, changedBy>>

page == <<nCar, loc, carouselLib>>

\* ---- the DOM ----
Locations(n) == {<<0, 0>>} \cup ((1..n) \X (1..MaxSlides))

DocOrderLe(a, b) == a[1] < b[1] \/ (a[1] = b[1] /\ a[2] <= b[2])

Range(s) == {s[i] : i \in 1..Len(s)}

Min(S) == CHOOSE x \in S : \A y \in S : x <= y

\* carousel.element.getElementsByTagName('video')
GetElementsByTagName(c) == {v \in Videos : loc[v][1] = c}

\* carousel.element.querySelector('.slider-item.is-active'); 0 is null
QuerySelectorActive(c) == active[c]

SlideVideos(c, s) == {v \in Videos : loc[v] = <<c, s>>}

\* currentSlide.querySelector('video'): first match in document order; 0 is null
QuerySelectorVideo(c, s) ==
    IF SlideVideos(c, s) = {} THEN 0 ELSE Min(SlideVideos(c, s))

\* video.pause() on every element of V
PauseAll(V) == [v \in Videos |-> IF v \in V THEN FALSE ELSE playing[v]]

\* video.play(); calling it on null throws a TypeError
Play(video) ==
    IF video = 0
    THEN [play |-> playing, threw |-> TRUE]
    ELSE [play |-> [playing EXCEPT ![video] = TRUE], threw |-> FALSE]

\* ---- the two callbacks ----
\* faulty variant: pauses only the videos of the slide being left
BeforeShowActiveOnly(c) == PauseAll(SlideVideos(c, active[c]))

\* faulty variant: document.getElementsByTagName instead of carousel.element
BeforeShowWholePage(c) == PauseAll(Videos)

BeforeShowCallback(c) == PauseAll(GetElementsByTagName(c))

\* faulty variant: the 'if (video)' test of line 32 is missing
ShownNoVideoGuard(c) ==
    LET currentSlide == QuerySelectorActive(c) IN
    IF currentSlide # 0
    THEN Play(QuerySelectorVideo(c, currentSlide))
    ELSE [play |-> playing, threw |-> FALSE]

\* faulty variant: querySelectorAll('video') and play() on each
ShownPlayAll(c) ==
    LET currentSlide == QuerySelectorActive(c) IN
    [play |-> [v \in Videos |->
                  IF currentSlide # 0 /\ v \in SlideVideos(c, currentSlide)
                  THEN TRUE ELSE playing[v]],
     threw |-> FALSE]

\* faulty variant: querySelector('.slider-item') without '.is-active'
ShownFirstItem(c) ==
    IF QuerySelectorVideo(c, 1) # 0
    THEN Play(QuerySelectorVideo(c, 1))
    ELSE [play |-> playing, threw |-> FALSE]

ShownCallback(c) ==
    LET currentSlide == QuerySelectorActive(c) IN
    IF currentSlide # 0
    THEN LET video == QuerySelectorVideo(c, currentSlide) IN
         IF video # 0 THEN Play(video)
         ELSE [play |-> playing, threw |-> FALSE]
    ELSE [play |-> playing, threw |-> FALSE]

\* which callback last changed each video's playback state
Track(c, ev, newPlaying) ==
    [v \in Videos |-> IF newPlaying[v] # playing[v] THEN <<c, ev>> ELSE changedBy[v]]

\* carousel.on(ev, ...)
On(h, c, ev) == [h EXCEPT ![c][ev] = @ + 1]

\* ---- initial state: the page as loaded, nothing attached ----
Init ==
    /\ nCar \in 0..MaxCarousels
    /\ loc \in {f \in [Videos -> Locations(nCar)] :
                  \A i, j \in Videos : i < j => DocOrderLe(f[i], f[j])}
    /\ carouselLib \in {"ok", "missing", "throws"}
    /\ pc = "loading"
    /\ runs = 0
    /\ carousels = <<>>
    /\ idx = 1
    /\ handlers = [c \in CarouselIds |-> [ev \in Events |-> 0]]
    /\ sliderAttached = FALSE
    /\ errors = {}
    /\ active = [c \in CarouselIds |-> 0]
    /\ phase = [c \in CarouselIds |-> "rest"]
    /\ playing \in [Videos -> BOOLEAN]
    /\ changedBy = [v \in Videos |-> NoCallback]

\* ---- the document-ready callback, statement by statement ----
\* $(document).ready(...): fires once when the DOM is loaded
DocumentReady ==
    /\ pc = "loading"
    /\ pc' = "line17"
    /\ runs' = runs + 1
    /\ UNCHANGED <<page, carousels, idx, handlers, sliderAttached, errors,
                   active, phase, playing, changedBy>>

\* faulty variant: line 17 wrapped in try/catch, falling back to no instances
AttachCarouselCaught ==
    /\ pc = "line17"
    /\ pc' = "line20"
    /\ idx' = 1
    /\ carousels' = IF carouselLib = "ok" THEN [i \in 1..nCar |-> i] ELSE <<>>
    /\ active' = [c \in CarouselIds |-> IF carouselLib = "ok" /\ c <= nCar THEN 1 ELSE 0]
    /\ UNCHANGED <<page, runs, handlers, sliderAttached, errors, phase,
                   playing, changedBy>>

\* var carousels = bulmaCarousel.attach('.carousel', options);
AttachCarousel ==
    /\ pc = "line17"
    /\ IF carouselLib = "ok"
       THEN /\ carousels' = [i \in 1..nCar |-> i]
            /\ active' = [c \in CarouselIds |-> IF c <= nCar THEN 1 ELSE 0]
            /\ idx' = 1
            /\ pc' = "line20"
            /\ UNCHANGED errors
       ELSE /\ pc' = "failed"
            /\ errors' = errors \cup {"line17"}
            /\ UNCHANGED <<carousels, active, idx>>
    /\ UNCHANGED <<page, runs, handlers, sliderAttached, phase, playing, changedBy>>

\* faulty variant: 'shown' registered twice
ForEachBodyTwice(carousel) ==
    /\ handlers' = On(On(On(handlers, carousel, "before:show"), carousel, "shown"),
                      carousel, "shown")
    /\ UNCHANGED <<playing, changedBy>>

\* faulty variant: the 'shown' handler is also invoked at registration
ForEachBodyInvoke(carousel) ==
    /\ handlers' = On(On(handlers, carousel, "before:show"), carousel, "shown")
    /\ playing' = ShownCallback(carousel).play
    /\ changedBy' = Track(carousel, "shown", ShownCallback(carousel).play)

\* carousel => { carousel.on('before:show', ...); carousel.on('shown', ...); }
ForEachBody(carousel) ==
    /\ handlers' = On(On(handlers, carousel, "before:show"), carousel, "shown")
    /\ UNCHANGED <<playing, changedBy>>

\* one iteration of carousels.forEach
ForEach ==
    /\ pc = "line20"
    /\ idx <= Len(carousels)
    /\ ForEachBody(carousels[idx])
    /\ idx' = idx + 1
    /\ UNCHANGED <<page, pc, runs, carousels, sliderAttached, errors, active, phase>>

\* faulty variant: returns before line 39 when there is no carousel
ForEachEndEarlyReturn ==
    /\ pc = "line20"
    /\ idx > Len(carousels)
    /\ pc' = IF Len(carousels) = 0 THEN "done" ELSE "line39"
    /\ UNCHANGED <<page, runs, carousels, idx, handlers, sliderAttached, errors,
                   active, phase, playing, changedBy>>

\* carousels.forEach returns
ForEachEnd ==
    /\ pc = "line20"
    /\ idx > Len(carousels)
    /\ pc' = "line39"
    /\ UNCHANGED <<page, runs, carousels, idx, handlers, sliderAttached, errors,
                   active, phase, playing, changedBy>>

\* bulmaSlider.attach();
AttachSlider ==
    /\ pc = "line39"
    /\ sliderAttached' = TRUE
    /\ pc' = "done"
    /\ UNCHANGED <<page, runs, carousels, idx, handlers, errors, active, phase,
                   playing, changedBy>>

\* ---- the widget library dispatching slide transitions ----
\* the document-ready callback has returned or died: the event loop is free
EventLoopFree == pc \in {"done", "failed"}

\* a transition starts on instance c: the library emits 'before:show', then
\* moves the 'is-active' flag (n = 0: no slide carries it)
EmitBeforeShow(c) ==
    /\ EventLoopFree
    /\ c \in Range(carousels)
    /\ phase[c] \in {"rest", "shown"}
    /\ LET newPlaying == IF handlers[c]["before:show"] > 0
                         THEN BeforeShowCallback(c) ELSE playing
       IN /\ playing' = newPlaying
          /\ changedBy' = Track(c, "before:show", newPlaying)
    /\ \E n \in 0..MaxSlides : active' = [active EXCEPT ![c] = n]
    /\ phase' = [phase EXCEPT ![c] = "before"]
    /\ UNCHANGED <<page, pc, runs, carousels, idx, handlers, sliderAttached, errors>>

\* the transition on instance c completes: the library emits 'shown'
EmitShown(c) ==
    /\ EventLoopFree
    /\ c \in Range(carousels)
    /\ phase[c] = "before"
    /\ LET r == IF handlers[c]["shown"] > 0
                THEN ShownCallback(c) ELSE [play |-> playing, threw |-> FALSE]
       IN /\ playing' = r.play
          /\ changedBy' = Track(c, "shown", r.play)
          /\ errors' = IF r.threw THEN errors \cup {"line33"} ELSE errors
    /\ phase' = [phase EXCEPT ![c] = "shown"]
    /\ UNCHANGED <<page, pc, runs, carousels, idx, handlers, sliderAttached, active>>

Next ==
    \/ DocumentReady
    \/ AttachCarousel
    \/ ForEach
    \/ ForEachEnd
    \/ AttachSlider
    \/ \E c \in CarouselIds : EmitBeforeShow(c)
    \/ \E c \in CarouselIds : EmitShown(c)

Spec == Init /\ [][Next]_vars

\* ---- properties ----
\* the step in which the 'shown' callback of carousel c runs
ShownStep(c) == phase[c] = "before" /\ phase'[c] = "shown"

\* videos that are playing because a 'shown' callback started them
StartedByCallbacks == {v \in Videos : playing[v] /\ changedBy[v][2] = "shown"}

\* C1 (as stated): at most one video across all carousels is playing as a
\* result of the slide-transition callbacks.
C1_AtMostOneOnPage == Cardinality(StartedByCallbacks) <= 1

\* C1 (amended): within each carousel, at most one video is playing as a
\* result of the slide-transition callbacks.
C1_AtMostOnePerCarousel ==
    \A c \in CarouselIds :
        Cardinality(StartedByCallbacks \cap GetElementsByTagName(c)) <= 1

C1_Witness ==
    \E v, w \in StartedByCallbacks : loc[v][1] # loc[w][1]

\* C2 (as stated): right after the 'shown' callback of a carousel whose active
\* slide holds exactly one video, that video plays and every other video on the
\* page that sits in a carousel is paused.
C2_OthersPausedOnPage ==
    [][\A c \in CarouselIds :
          (ShownStep(c) /\ active[c] # 0 /\ Cardinality(SlideVideos(c, active[c])) = 1)
          => \A v \in Videos :
                loc[v][1] # 0 => (playing'[v] <=> v \in SlideVideos(c, active[c]))]_vars

\* C2 (amended): right after the 'shown' callback of a carousel whose active
\* slide holds exactly one video, that video plays and every other video of
\* that carousel is paused; videos outside the carousel keep their state.
C2_OthersPausedInCarousel ==
    [][\A c \in CarouselIds :
          (ShownStep(c) /\ active[c] # 0 /\ Cardinality(SlideVideos(c, active[c])) = 1)
          => \A v \in Videos :
                IF v \in GetElementsByTagName(c)
                THEN playing'[v] <=> v \in SlideVideos(c, active[c])
                ELSE playing'[v] = playing[v]]_vars

C2_Witness ==
    \E c \in CarouselIds : \E v, w \in Videos :
        /\ phase[c] = "shown"
        /\ active[c] # 0
        /\ SlideVideos(c, active[c]) = {v}
        /\ changedBy[v] = <<c, "shown">>
        /\ playing[v]
        /\ loc[w][1] # c
        /\ playing[w]

\* C3: between the 'before:show' callback of a carousel and the 'shown' event
\* of the same transition, every video in that carousel's subtree is paused.
C3_PausedBeforeShown ==
    \A c \in CarouselIds :
        phase[c] = "before" => \A v \in GetElementsByTagName(c) : ~playing[v]

C3_Witness ==
    \E c \in CarouselIds : \E v \in Videos :
        /\ phase[c] = "before"
        /\ loc[v][1] = c
        /\ loc[v][2] # 1
        /\ loc[v][2] # active[c]
        /\ changedBy[v] = <<c, "before:show">>

\* C4: a 'shown' callback that finds no active slide, or an active slide
\* without a video, changes no playback state and throws nothing.
C4_NoVideoNoEffect ==
    [][\A c \in CarouselIds :
          (ShownStep(c) /\ (active[c] = 0 \/ SlideVideos(c, active[c]) = {}))
          => (playing' = playing /\ errors' = errors)]_vars

C4_Witness ==
    \E c, d \in CarouselIds :
        /\ phase[c] = "shown" /\ active[c] = 0 /\ GetElementsByTagName(c) # {}
        /\ phase[d] = "shown" /\ active[d] # 0 /\ SlideVideos(d, active[d]) = {}
        /\ handlers[c]["shown"] = 1 /\ handlers[d]["shown"] = 1

\* C5: with bulmaCarousel present and no '.carousel' element, initialization
\* throws nothing, returns an empty instance collection, registers no callback
\* and attaches the slider.
C5_NoCarouselElements ==
    (nCar = 0 /\ carouselLib = "ok")
    => /\ errors = {}
       /\ pc # "failed"
       /\ pc = "done" => /\ carousels = <<>>
                         /\ \A c \in CarouselIds : \A ev \in Events : handlers[c][ev] = 0
                         /\ sliderAttached

C5_Witness == nCar = 0 /\ pc = "done" /\ sliderAttached /\ carousels = <<>>

\* the forEach of line 20 has returned
PastForEach == pc \in {"line39", "done"}

\* C6: initialization runs once, and after it every '.carousel' element has
\* exactly one instance carrying exactly one handler for each of the two events.
C6_OneInstanceOneHandlerEach ==
    /\ runs <= 1
    /\ PastForEach =>
          /\ runs = 1
          /\ \A e \in 1..nCar :
                /\ Cardinality({i \in DOMAIN carousels : carousels[i] = e}) = 1
                /\ handlers[e]["before:show"] = 1
                /\ handlers[e]["shown"] = 1

C6_Witness == pc = "done" /\ nCar >= 2 /\ Len(carousels) = nCar

\* C7: when bulmaCarousel is missing or its attach call throws, initialization
\* dies at line 17: no callback is ever registered and bulmaSlider.attach is
\* never reached.
C7_FailsAtFirstLibraryCall ==
    carouselLib # "ok"
    => /\ pc \in {"loading", "line17", "failed"}
       /\ pc = "failed" => errors = {"line17"}
       /\ \A c \in CarouselIds : \A ev \in Events : handlers[c][ev] = 0
       /\ ~sliderAttached

C7_Witness == pc = "failed" /\ carouselLib # "ok" /\ nCar > 0

\* C8 (as stated): no video has its playback state changed by two distinct
\* callbacks.
C8_DisjointPerCallback ==
    [][\A v \in Videos :
          (playing'[v] # playing[v] /\ changedBy[v] # NoCallback)
          => changedBy'[v] = changedBy[v]]_vars

\* C8 (amended): a video's playback state is only ever changed by the callbacks
\* of the carousel that contains it, so callbacks of different carousels change
\* disjoint sets of videos.
C8_DisjointPerCarousel ==
    \A v \in Videos : changedBy[v] # NoCallback => changedBy[v][1] = loc[v][1]

C8_Witness ==
    \E v, w \in Videos :
        /\ changedBy[v] # NoCallback
        /\ changedBy[w] # NoCallback
        /\ changedBy[v][1] # changedBy[w][1]

\* C9: one run of the 'shown' callback starts at most one video; in an active
\* slide with several videos it plays the first in document order and leaves
\* every other video as it was.
C9_PlaysOnlyFirstVideo ==
    [][\A c \in CarouselIds :
          ShownStep(c)
          => /\ Cardinality({v \in Videos : playing'[v] # playing[v]}) <= 1
             /\ \A v \in Videos :
                   (active[c] # 0 /\ loc[v] = <<c, active[c]>>
                     /\ \A w \in Videos : loc[w] = loc[v] => v <= w)
                   => /\ playing'[v]
                      /\ \A w \in Videos \ {v} : playing'[w] = playing[w]]_vars

C9_Witness ==
    \E c \in CarouselIds : \E v, w \in Videos :
        /\ phase[c] = "shown"
        /\ active[c] # 0
        /\ v < w
        /\ loc[v] = <<c, active[c]>>
        /\ loc[w] = <<c, active[c]>>
        /\ changedBy[v] = <<c, "shown">>
        /\ playing[v]
        /\ ~playing[w]

\* C10: no step taken before the first event is dispatched changes a playback
\* state, and a video only goes from paused to playing in a 'shown' step of the
\* carousel that contains it.
C10_InitLeavesPlayback ==
    [][/\ (\A c \in CarouselIds : phase'[c] = "rest") => playing' = playing
       /\ \A v \in Videos :
             (~playing[v] /\ playing'[v])
             => \E c \in CarouselIds : c = loc[v][1] /\ ShownStep(c)]_vars

C10_Witness ==
    /\ pc = "done"
    /\ \A c \in CarouselIds : phase[c] = "rest"
    /\ \E v, w \in Videos : /\ loc[v] = <<1, 1>> /\ ~playing[v]
                            /\ playing[w]

====
